---- MODULE Spec2Model ----
(***************************************************************************)
(* Model of facedancer/future/device.py: the control-request dispatch of   *)
(* USBDevice, its address/configuration state and its calls into the      *)
(* backend.  Every backend callback (handle_request, handle_bus_reset) and *)
(* add_configuration is one action; the handlers it runs are operators on  *)
(* a record `self` holding the device's fields, applied in the order the   *)
(* code applies them.                                                      *)
(***************************************************************************)
EXTENDS Integers, Sequences, FiniteSets, TLC

VARIABLES
    address,                    \* self.address
    configuration,              \* self.configuration: a configuration object, or None
    configurations,             \* self.configurations: the owned objects, in dict order
    strings,                    \* self.strings: string values in first-seen order
    suggested_requests,         \* self._suggested_requests
    suggested_request_metadata, \* self._suggested_request_metadata
    calls,                      \* the backend calls made by the last callback, in order
    raised,                     \* an exception escaped the last callback
    last,                       \* the last callback, its arguments and the state it started in
    loop,                       \* emulate(): where it stands, and what it did to the backend
    sending                     \* _send_in_packets: its local data and where it stands

vars == <<address, configuration, configurations, strings, suggested_requests,
          suggested_request_metadata, calls, raised, last, loop, sending>>

(***************************************************************************)
(* Bounds of the model.                                                    *)
(***************************************************************************)
MaxAddress == 2
MaxConfigurationNumber == 2
MaxPayload == 1
MaxSendLength == 4
MaxPacketSize == 3

(***************************************************************************)
(* Values of the program.                                                  *)
(***************************************************************************)
None == 0

USBDirection_OUT == 0
USBDirection_IN  == 1

GET_STATUS        == 0
CLEAR_FEATURE     == 1
SET_FEATURE       == 3
SET_ADDRESS       == 5
GET_DESCRIPTOR    == 6
SET_DESCRIPTOR    == 7
GET_CONFIGURATION == 8
SET_CONFIGURATION == 9
GET_INTERFACE     == 10
SET_INTERFACE     == 11
SYNCH_FRAME       == 12

DescriptorTypes_DEVICE        == 1
DescriptorTypes_CONFIGURATION == 2
DescriptorTypes_STRING        == 3

Min(a, b) == IF a <= b THEN a ELSE b

(***************************************************************************)
(* Configuration objects.  Objects 1..MaxConfigurationNumber carry their   *)
(* own number; one more object carries number 1 again, so that             *)
(* add_configuration can replace an owned configuration by another object. *)
(***************************************************************************)
ConfigurationObjects == 1..(MaxConfigurationNumber + 1)

number(c) == IF c <= MaxConfigurationNumber THEN c ELSE 1

interfaces(c) == {0}

IndexOf(confs, n) == CHOOSE i \in 1..Len(confs) : number(confs[i]) = n

HasKey(confs, n) == \E i \in 1..Len(confs) : number(confs[i]) = n

Lookup(confs, n) == confs[IndexOf(confs, n)]

(***************************************************************************)
(* Control requests.                                                       *)
(***************************************************************************)
Request(d, t, rc, n, v, i, l, dat) ==
    [direction |-> d, type |-> t, recipient |-> rc, number |-> n,
     value |-> v, index |-> i, length |-> l, data |-> dat]

value_high(request) == (request.value \div 256) % 256

value_low(request) == request.value % 256

index_low(request) == request.index % 256

NoRequest == Request(USBDirection_OUT, "NONE", "NONE", 0, 0, 0, 0, <<>>)

(***************************************************************************)
(* Fields of the device (the dataclass defaults).                          *)
(***************************************************************************)
device_class             == 0
device_subclass          == 0
protocol_revision_number == 0
max_packet_size_ep0      == 64
vendor_id                == 24843
product_id               == 18003
device_revision          == 0
usb_spec_version         == 2
ENGLISH_US               == 1033

\* The strings, as sequences of UTF-16 code units.
manufacturer_string  == <<70, 97, 99, 101, 68, 97, 110, 99, 101, 114>>
product_string       == <<71, 101, 110, 101, 114, 105, 99, 32, 85, 83, 66, 32, 68, 101, 118, 105, 99, 101>>
serial_number_string == <<83, 47, 78, 32, 51, 52, 50, 48, 69>>

supported_languages == <<ENGLISH_US>>

(***************************************************************************)
(* The device as a record, and the backend calls it makes.  Each call is   *)
(* logged with the address and configuration the device holds when the     *)
(* call is made.                                                           *)
(***************************************************************************)
Self ==
    [address |-> address, configuration |-> configuration,
     configurations |-> configurations, strings |-> strings,
     suggested_requests |-> suggested_requests,
     suggested_request_metadata |-> suggested_request_metadata,
     calls |-> <<>>, offered |-> <<>>, handled |-> FALSE, raised |-> FALSE,
     invoked |-> <<>>, sending |-> sending]

BackendCall(self, name, endpoint, data, flag, arg) ==
    [self EXCEPT !.calls = Append(@,
        [call |-> name, endpoint |-> endpoint, data |-> data, flag |-> flag,
         arg |-> arg, address |-> self.address,
         configuration |-> self.configuration])]

Raise(self) == [self EXCEPT !.raised = TRUE]

\* stall(endpoint_number, direction): backend.stall_endpoint(endpoint_number, direction)
stall(self, endpoint_number, direction) ==
    BackendCall(self, "stall_endpoint", endpoint_number, <<>>, FALSE, direction)

Take(data, n) == SubSeq(data, 1, Min(n, Len(data)))

Drop(data, n) == SubSeq(data, Min(n, Len(data)) + 1, Len(data))

\* The while loop of _send_in_packets: one packet per iteration.
RECURSIVE send_packets(_, _, _, _, _)
send_packets(self, endpoint_number, data, packet_size, blocking) ==
    IF data = <<>> THEN self
    ELSE send_packets(
            BackendCall(self, "send_on_endpoint", endpoint_number,
                        Take(data, packet_size), blocking, 0),
            endpoint_number, Drop(data, packet_size), packet_size, blocking)

\* Mutant of _send_in_packets: a payload that fills its last packet is
\* followed by a zero-length packet.
send_in_packets_trailing_zero_length(self, endpoint_number, data, packet_size, blocking) ==
    IF data = <<>>
    THEN BackendCall(self, "send_on_endpoint", endpoint_number, data, blocking, 0)
    ELSE LET sent == send_packets(self, endpoint_number, data, packet_size, blocking)
         IN  IF Len(data) % packet_size = 0
             THEN BackendCall(sent, "send_on_endpoint", endpoint_number, <<>>, blocking, 0)
             ELSE sent

send_in_packets(self, endpoint_number, data, packet_size, blocking) ==
    IF data = <<>>
    THEN BackendCall(self, "send_on_endpoint", endpoint_number, data, blocking, 0)
    ELSE send_packets(self, endpoint_number, data, packet_size, blocking)

\* The endpoints of a configuration, keyed by (number, direction): every
\* configuration has the IN endpoint 1 and the OUT endpoint 2.
endpoints(c) == {<<1, USBDirection_IN>>, <<2, USBDirection_OUT>>}

Endpoint(endpoint_number, direction) ==
    [exists |-> TRUE, number |-> endpoint_number, direction |-> direction]

NoEndpoint == [exists |-> FALSE, number |-> 0, direction |-> USBDirection_OUT]

\* USBConfiguration.get_endpoint: the endpoint with that number and
\* direction, None when the configuration has none.
configuration_get_endpoint(c, endpoint_number, direction) ==
    IF <<endpoint_number, direction>> \in endpoints(c)
    THEN Endpoint(endpoint_number, direction)
    ELSE NoEndpoint

\* USBEndpoint.send, on the endpoint get_endpoint returned: the packet size
\* of an endpoint is max_packet_size_ep0.
endpoint_send(self, endpoint_number, data, blocking) ==
    IF configuration_get_endpoint(self.configuration, endpoint_number, USBDirection_IN).exists
    THEN send_in_packets(self, endpoint_number, data, max_packet_size_ep0, blocking)
    ELSE Raise(self)

\* Mutant of send: endpoint 0 is packetized like any other endpoint.
send_packetizes_endpoint_zero(self, endpoint_number, data, blocking) ==
    IF endpoint_number = 0
    THEN send_in_packets(self, 0, data, max_packet_size_ep0, blocking)
    ELSE IF self.configuration # None
    THEN endpoint_send(self, endpoint_number, data, blocking)
    ELSE self

send(self, endpoint_number, data, blocking) ==
    IF endpoint_number = 0
    THEN BackendCall(self, "send_on_endpoint", 0, data, blocking, 0)
    ELSE IF self.configuration # None
    THEN endpoint_send(self, endpoint_number, data, blocking)
    ELSE self

\* USBControlRequest.reply, acknowledge and stall go through the device.
reply(self, data) == send(self, 0, data, FALSE)

acknowledge(self, blocking) == send(self, 0, <<>>, blocking)

request_stall(self) == stall(self, 0, USBDirection_OUT)

\* Mutant of set_address: the backend is never told.
set_address_unreported(self, new_address, defer) ==
    [self EXCEPT !.address = new_address]

set_address(self, new_address, defer) ==
    BackendCall([self EXCEPT !.address = new_address],
                "set_address", 0, <<>>, defer, new_address)

(***************************************************************************)
(* The endpoint event receivers.  `invoked` lists the event handlers of    *)
(* the device and of its configuration that the receiver ran, in order.    *)
(***************************************************************************)
Invoked(self, name) == [self EXCEPT !.invoked = Append(@, name)]

get_endpoint(self, endpoint_number, direction) ==
    IF self.configuration # None
    THEN configuration_get_endpoint(self.configuration, endpoint_number, direction)
    ELSE NoEndpoint

handle_unexpected_data_received(self, endpoint_number, data) ==
    Invoked(self, "handle_unexpected_data_received")

handle_unexpected_data_requested(self, endpoint_number) ==
    Invoked(self, "handle_unexpected_data_requested")

handle_data_received(self, endpoint, data) ==
    LET entered == Invoked(self, "handle_data_received")
    IN  IF entered.configuration # None
        THEN Invoked(entered, "configuration.handle_data_received")
        ELSE handle_unexpected_data_received(entered, endpoint.number, data)

handle_data_requested(self, endpoint) ==
    LET entered == Invoked(self, "handle_data_requested")
    IN  IF entered.configuration # None
        THEN Invoked(entered, "configuration.handle_data_requested")
        ELSE handle_unexpected_data_requested(entered, endpoint.number)

handle_buffer_empty(self, endpoint) ==
    LET entered == Invoked(self, "handle_buffer_empty")
    IN  IF entered.configuration # None
        THEN Invoked(entered, "configuration.handle_buffer_empty")
        ELSE entered

handle_nak(self, ep_num) ==
    LET endpoint == get_endpoint(self, ep_num, USBDirection_IN)
    IN  IF endpoint.exists
        THEN handle_data_requested(self, endpoint)
        ELSE handle_unexpected_data_requested(self, ep_num)

handle_buffer_available(self, ep_num) ==
    LET endpoint == get_endpoint(self, ep_num, USBDirection_IN)
    IN  IF endpoint.exists
        THEN handle_buffer_empty(self, endpoint)
        ELSE self

\* Mutant of handle_data_available: data for an endpoint that does not
\* exist is dropped without the unexpected-data handler.
handle_data_available_drops_unexpected(self, ep_num, data) ==
    LET endpoint == get_endpoint(self, ep_num, USBDirection_OUT)
    IN  IF endpoint.exists
        THEN handle_data_received(self, endpoint, data)
        ELSE self

handle_data_available(self, ep_num, data) ==
    LET endpoint == get_endpoint(self, ep_num, USBDirection_OUT)
    IN  IF endpoint.exists
        THEN handle_data_received(self, endpoint, data)
        ELSE handle_unexpected_data_received(self, ep_num, data)

(***************************************************************************)
(* Descriptors.  A producer yields the (possibly updated) device, the      *)
(* descriptor bytes (<<>> standing for None or an empty buffer), and       *)
(* whether it raised.                                                      *)
(***************************************************************************)
Produced(self, bytes) == [self |-> self, value |-> bytes, raised |-> FALSE]

Position(strs, s) == CHOOSE i \in 1..Len(strs) : strs[i] = s

\* StringDescriptorManager.get_index: the index of a string, assigned 1-based
\* in first-seen order.
add_string(strs, s) ==
    IF \E i \in 1..Len(strs) : strs[i] = s THEN strs ELSE Append(strs, s)

get_index(strs, s) == Position(add_string(strs, s), s)

RECURSIVE utf16le(_)
utf16le(s) ==
    IF s = <<>> THEN <<>>
    ELSE <<Head(s) % 256, (Head(s) \div 256) % 256>> \o utf16le(Tail(s))

\* StringDescriptorManager.__getitem__: the descriptor of an assigned index,
\* None otherwise.
strings_getitem(strs, index) ==
    IF index \in 1..Len(strs)
    THEN <<2 + 2 * Len(strs[index]), DescriptorTypes_STRING>> \o utf16le(strs[index])
    ELSE <<>>

get_descriptor(self) ==
    LET s1 == add_string(self.strings, manufacturer_string)
        s2 == add_string(s1, product_string)
        s3 == add_string(s2, serial_number_string)
    IN  Produced([self EXCEPT !.strings = s3],
            <<18,
              1,
              (usb_spec_version \div 256) % 256,
              usb_spec_version % 256,
              device_class,
              device_subclass,
              protocol_revision_number,
              max_packet_size_ep0,
              vendor_id % 256,
              (vendor_id \div 256) % 256,
              product_id % 256,
              (product_id \div 256) % 256,
              (device_revision \div 256) % 256,
              device_revision % 256,
              get_index(s1, manufacturer_string),
              get_index(s2, product_string),
              get_index(s3, serial_number_string),
              Len(self.configurations)>>)

\* USBConfiguration.get_descriptor: the 9-byte configuration descriptor,
\* whose bConfigurationValue is the configuration's number.
configuration_get_descriptor(c) ==
    <<9, DescriptorTypes_CONFIGURATION, 9, 0, Cardinality(interfaces(c)), number(c), 0, 128, 250>>

\* Mutant of get_configuration_descriptor: the index is used as the
\* configuration number, without the adjustment by one.
get_configuration_descriptor_zero_based(self, index) ==
    IF HasKey(self.configurations, index)
    THEN Produced(self, configuration_get_descriptor(Lookup(self.configurations, index)))
    ELSE [self |-> self, value |-> <<>>, raised |-> TRUE]

get_configuration_descriptor(self, index) ==
    IF HasKey(self.configurations, index + 1)
    THEN Produced(self, configuration_get_descriptor(Lookup(self.configurations, index + 1)))
    ELSE [self |-> self, value |-> <<>>, raised |-> TRUE]

RECURSIVE language_bytes(_)
language_bytes(languages) ==
    IF languages = <<>> THEN <<>>
    ELSE <<Head(languages) % 256, (Head(languages) \div 256) % 256>>
         \o language_bytes(Tail(languages))

handle_get_supported_languages_descriptor ==
    <<(Len(supported_languages) * 2) + 2, DescriptorTypes_STRING>>
    \o language_bytes(supported_languages)

get_string_descriptor(self, index) ==
    IF index = 0
    THEN Produced(self, handle_get_supported_languages_descriptor)
    ELSE Produced(self, strings_getitem(self.strings, index))

\* self.descriptors, as filled by __post_init__, evaluated on an index.
descriptors(self, descriptor_type, descriptor_index) ==
    IF descriptor_type = DescriptorTypes_DEVICE THEN get_descriptor(self)
    ELSE IF descriptor_type = DescriptorTypes_CONFIGURATION
    THEN get_configuration_descriptor(self, descriptor_index)
    ELSE IF descriptor_type = DescriptorTypes_STRING
    THEN get_string_descriptor(self, descriptor_index)
    ELSE Produced(self, <<>>)

\* Mutant of handle_generic_get_descriptor_request: the whole descriptor is
\* sent, whatever length was requested.
handle_generic_get_descriptor_request_untruncated(self, request) ==
    LET response == descriptors(self, value_high(request), value_low(request))
    IN  IF response.raised THEN Raise(response.self)
        ELSE IF response.value # <<>>
        THEN reply(response.self, response.value)
        ELSE request_stall(response.self)

\* Mutant of handle_generic_get_descriptor_request: a missing descriptor is
\* answered with an empty reply instead of a stall.
handle_generic_get_descriptor_request_replies_empty(self, request) ==
    LET response == descriptors(self, value_high(request), value_low(request))
    IN  IF response.raised THEN Raise(response.self)
        ELSE reply(response.self,
                   Take(response.value, Min(request.length, Len(response.value))))

handle_generic_get_descriptor_request(self, request) ==
    LET response == descriptors(self, value_high(request), value_low(request))
    IN  IF response.raised THEN Raise(response.self)
        ELSE IF response.value # <<>>
        THEN reply(response.self,
                   Take(response.value, Min(request.length, Len(response.value))))
        ELSE request_stall(response.self)

(***************************************************************************)
(* The standard request handlers of USBDevice.                             *)
(***************************************************************************)
handle_get_status_request(self, request) == reply(self, <<3, 0>>)

handle_clear_feature_request(self, request) == acknowledge(self, FALSE)

handle_set_feature_request(self, request) == request_stall(self)

\* Mutant of handle_set_address_request: the address is applied before the
\* acknowledge.
handle_set_address_request_address_first(self, request) ==
    acknowledge(set_address(self, request.value, FALSE), TRUE)

handle_set_address_request(self, request) ==
    set_address(acknowledge(self, TRUE), request.value, FALSE)

handle_get_descriptor_request(self, request) ==
    handle_generic_get_descriptor_request(self, request)

handle_set_descriptor_request(self, request) == request_stall(self)

\* Mutant of handle_get_configuration_request: the reply identifies the
\* configuration object instead of giving its number.
handle_get_configuration_request_replies_object(self, request) ==
    IF self.configuration = None
    THEN reply(self, <<0>>)
    ELSE reply(self, <<self.configuration>>)

handle_get_configuration_request(self, request) ==
    IF self.configuration = None
    THEN reply(self, <<0>>)
    ELSE reply(self, <<number(self.configuration)>>)

\* Mutant of handle_set_configuration_request: configuration 0 is
\* acknowledged without dropping the active configuration.
handle_set_configuration_request_keeps_on_zero(self, request) ==
    LET applied ==
            IF request.value = 0
            THEN acknowledge(self, FALSE)
            ELSE IF HasKey(self.configurations, request.value)
            THEN acknowledge(
                    [self EXCEPT !.configuration = Lookup(self.configurations, request.value)],
                    FALSE)
            ELSE request_stall(self)
    IN  BackendCall(applied, "configured", 0, <<>>, FALSE, applied.configuration)

\* Mutant of handle_set_configuration_request: the active configuration is
\* dropped before the lookup, so an unknown number deselects it.
handle_set_configuration_request_clears_on_unknown(self, request) ==
    LET applied ==
            IF request.value = 0
            THEN acknowledge([self EXCEPT !.configuration = None], FALSE)
            ELSE IF HasKey(self.configurations, request.value)
            THEN acknowledge(
                    [self EXCEPT !.configuration = Lookup(self.configurations, request.value)],
                    FALSE)
            ELSE request_stall([self EXCEPT !.configuration = None])
    IN  BackendCall(applied, "configured", 0, <<>>, FALSE, applied.configuration)

\* Mutant of handle_set_configuration_request: the stall path returns without
\* notifying the backend.
handle_set_configuration_request_silent_on_stall(self, request) ==
    IF request.value = 0
    THEN LET applied == acknowledge([self EXCEPT !.configuration = None], FALSE)
         IN  BackendCall(applied, "configured", 0, <<>>, FALSE, applied.configuration)
    ELSE IF HasKey(self.configurations, request.value)
    THEN LET applied == acknowledge(
                [self EXCEPT !.configuration = Lookup(self.configurations, request.value)],
                FALSE)
         IN  BackendCall(applied, "configured", 0, <<>>, FALSE, applied.configuration)
    ELSE request_stall(self)

handle_set_configuration_request(self, request) ==
    LET applied ==
            IF request.value = 0
            THEN acknowledge([self EXCEPT !.configuration = None], FALSE)
            ELSE IF HasKey(self.configurations, request.value)
            THEN acknowledge(
                    [self EXCEPT !.configuration = Lookup(self.configurations, request.value)],
                    FALSE)
            ELSE request_stall(self)
    IN  BackendCall(applied, "configured", 0, <<>>, FALSE, applied.configuration)

handle_get_interface_request(self, request) ==
    IF self.configuration # None /\ index_low(request) \in interfaces(self.configuration)
    THEN reply(self, <<0>>)
    ELSE request_stall(self)

\* Mutant of handle_set_interface_request: selecting interface 0 drops the
\* active configuration.
handle_set_interface_request_deselects(self, request) ==
    IF index_low(request) = 0
    THEN acknowledge([self EXCEPT !.configuration = None], FALSE)
    ELSE request_stall(self)

handle_set_interface_request(self, request) ==
    IF index_low(request) = 0
    THEN acknowledge(self, FALSE)
    ELSE request_stall(self)

handle_synch_frame_request(self, request) == acknowledge(self, FALSE)

(***************************************************************************)
(* The handler registry and the dispatch of USBRequestHandler.             *)
(***************************************************************************)
Binding(n, h) ==
    [type |-> "STANDARD", recipient |-> "DEVICE", number |-> n, handler |-> h]

\* get_request_handler_methods(self): the decorated methods of USBDevice.
\* @standard_request_handler fixes type and number, @to_device the recipient;
\* the direction is not restricted.
request_handler_methods ==
    << Binding(GET_STATUS,        "handle_get_status_request"),
       Binding(CLEAR_FEATURE,     "handle_clear_feature_request"),
       Binding(SET_FEATURE,       "handle_set_feature_request"),
       Binding(SET_ADDRESS,       "handle_set_address_request"),
       Binding(GET_DESCRIPTOR,    "handle_get_descriptor_request"),
       Binding(SET_DESCRIPTOR,    "handle_set_descriptor_request"),
       Binding(GET_CONFIGURATION, "handle_get_configuration_request"),
       Binding(SET_CONFIGURATION, "handle_set_configuration_request"),
       Binding(GET_INTERFACE,     "handle_get_interface_request"),
       Binding(SET_INTERFACE,     "handle_set_interface_request"),
       Binding(SYNCH_FRAME,       "handle_synch_frame_request") >>

matches(binding, request) ==
    /\ binding.type = request.type
    /\ binding.recipient = request.recipient
    /\ binding.number = request.number

Matching(request) ==
    {i \in 1..Len(request_handler_methods) : matches(request_handler_methods[i], request)}

FirstOf(S) == CHOOSE i \in S : \A j \in S : i <= j

Invoke(handler, self, request) ==
    CASE handler = "handle_get_status_request" -> handle_get_status_request(self, request)
      [] handler = "handle_clear_feature_request" -> handle_clear_feature_request(self, request)
      [] handler = "handle_set_feature_request" -> handle_set_feature_request(self, request)
      [] handler = "handle_set_address_request" -> handle_set_address_request(self, request)
      [] handler = "handle_get_descriptor_request" -> handle_get_descriptor_request(self, request)
      [] handler = "handle_set_descriptor_request" -> handle_set_descriptor_request(self, request)
      [] handler = "handle_get_configuration_request" -> handle_get_configuration_request(self, request)
      [] handler = "handle_set_configuration_request" -> handle_set_configuration_request(self, request)
      [] handler = "handle_get_interface_request" -> handle_get_interface_request(self, request)
      [] handler = "handle_set_interface_request" -> handle_set_interface_request(self, request)
      [] handler = "handle_synch_frame_request" -> handle_synch_frame_request(self, request)

\* The handlers a configuration declares: configuration c handles the class
\* request to an interface whose number is c's own number, and acknowledges it.
configuration_matches(c, request) ==
    /\ request.type = "CLASS"
    /\ request.recipient = "INTERFACE"
    /\ request.number = number(c)

configuration_handle_request(self, c, request) ==
    IF configuration_matches(c, request)
    THEN [acknowledge(self, FALSE) EXCEPT !.handled = TRUE]
    ELSE self

\* As a device, our subordinates are our configurations.
get_subordinate_handlers(self) == self.configurations

\* Offers the request to each subordinate in turn, until one handles it.
RECURSIVE call_subordinate_handlers(_, _, _)
call_subordinate_handlers(self, subordinates, request) ==
    IF subordinates = <<>> \/ self.handled \/ self.raised THEN self
    ELSE call_subordinate_handlers(
            configuration_handle_request(
                [self EXCEPT !.offered = Append(@, Head(subordinates))],
                Head(subordinates), request),
            Tail(subordinates), request)

base_handle_request(self, request) ==
    IF Matching(request) # {}
    THEN LET after == Invoke(request_handler_methods[FirstOf(Matching(request))].handler,
                             self, request)
         IN  [after EXCEPT !.handled = ~after.raised]
    ELSE call_subordinate_handlers(self, get_subordinate_handlers(self), request)

suggestion_summary(request) ==
    <<request.direction, request.type, request.recipient, request.number>>

\* Mutant of add_request_suggestion: the metadata is stored, the summary is
\* not added to the set.
add_request_suggestion_metadata_only(self, request) ==
    [self EXCEPT
        !.suggested_request_metadata =
            [k \in DOMAIN @ \cup {suggestion_summary(request)} |->
                IF k = suggestion_summary(request)
                THEN [length |-> request.length, data |-> request.data]
                ELSE @[k]]]

\* Mutant of add_request_suggestion: a signature seen before keeps its
\* first record.
add_request_suggestion_keeps_first(self, request) ==
    [self EXCEPT
        !.suggested_requests = @ \cup {suggestion_summary(request)},
        !.suggested_request_metadata =
            [k \in DOMAIN @ \cup {suggestion_summary(request)} |->
                IF k \in DOMAIN @
                THEN @[k]
                ELSE [length |-> request.length, data |-> request.data]]]

add_request_suggestion(self, request) ==
    [self EXCEPT
        !.suggested_requests = @ \cup {suggestion_summary(request)},
        !.suggested_request_metadata =
            [k \in DOMAIN @ \cup {suggestion_summary(request)} |->
                IF k = suggestion_summary(request)
                THEN [length |-> request.length, data |-> request.data]
                ELSE @[k]]]

handle_request(self, request) ==
    LET after == base_handle_request(self, request)
    IN  IF after.raised THEN after
        ELSE IF ~after.handled
        THEN stall(add_request_suggestion(after, request), 0, USBDirection_OUT)
        ELSE after

\* Mutant of handle_bus_reset: the address is not cleared.
handle_bus_reset_keeps_address(self) ==
    BackendCall([self EXCEPT !.configuration = None], "reset", 0, <<>>, FALSE, 0)

handle_bus_reset(self) ==
    BackendCall([self EXCEPT !.configuration = None, !.address = 0],
                "reset", 0, <<>>, FALSE, 0)

add_configuration(self, c) ==
    LET owned == self.configurations
    IN  [self EXCEPT !.configurations =
            IF HasKey(owned, number(c))
            THEN [owned EXCEPT ![IndexOf(owned, number(c))] = c]
            ELSE Append(owned, c)]

(***************************************************************************)
(* The requests the host sends.                                            *)
(***************************************************************************)
Payloads == {[i \in 1..n |-> i] : n \in 0..MaxPayload}

StandardRequest(d, n, v, i, l) ==
    Request(d, "STANDARD", "DEVICE", n, v, i, l, <<>>)

SimpleRequests ==
    {StandardRequest(USBDirection_IN, n, 0, 0, 2) : n \in {GET_STATUS, SYNCH_FRAME}}
    \cup {StandardRequest(USBDirection_IN, GET_CONFIGURATION, 0, 0, 1)}
    \cup {StandardRequest(USBDirection_OUT, n, 0, 0, 0) :
            n \in {CLEAR_FEATURE, SET_FEATURE, SET_DESCRIPTOR}}

SetAddressRequests ==
    {StandardRequest(USBDirection_OUT, SET_ADDRESS, a, 0, 0) : a \in 0..MaxAddress}

SetConfigurationRequests ==
    {StandardRequest(USBDirection_OUT, SET_CONFIGURATION, n, 0, 0) :
        n \in 0..(MaxConfigurationNumber + 1)}

InterfaceRequests ==
    {StandardRequest(USBDirection_IN, GET_INTERFACE, 0, i, 1) : i \in 0..1}
    \cup {StandardRequest(USBDirection_OUT, SET_INTERFACE, 0, i, 0) : i \in 0..1}

DescriptorLengths == {2, 255}

GetDescriptorRequests ==
    {StandardRequest(USBDirection_IN, GET_DESCRIPTOR, t * 256 + i, 0, l) :
        t \in {DescriptorTypes_CONFIGURATION},
        i \in 0..MaxConfigurationNumber, l \in DescriptorLengths}
    \cup {StandardRequest(USBDirection_IN, GET_DESCRIPTOR, DescriptorTypes_STRING * 256 + i, 0, 255) :
        i \in 0..1}
    \cup {StandardRequest(USBDirection_IN, GET_DESCRIPTOR, t * 256, 0, l) :
        t \in {DescriptorTypes_DEVICE, DescriptorTypes_STRING + 1},
        l \in DescriptorLengths}
    \cup {StandardRequest(USBDirection_IN, GET_DESCRIPTOR, DescriptorTypes_DEVICE * 256, 0, l) :
        l \in {0, 18}}

\* Class requests to an interface: numbers 1..MaxConfigurationNumber are
\* declared by the configurations, the next number by nobody.
ClassRequests ==
    {Request(USBDirection_OUT, "CLASS", "INTERFACE", n, 0, 0, 0, <<>>) :
        n \in 1..MaxConfigurationNumber}
    \cup {Request(USBDirection_OUT, "CLASS", "INTERFACE", MaxConfigurationNumber + 1,
                  0, 0, Len(p), p) : p \in Payloads}
    \cup {Request(USBDirection_IN, "CLASS", "INTERFACE", MaxConfigurationNumber + 1,
                  0, 0, MaxPayload, <<>>)}

Requests ==
    SimpleRequests \cup SetAddressRequests \cup SetConfigurationRequests
    \cup InterfaceRequests \cup GetDescriptorRequests \cup ClassRequests

(***************************************************************************)
(* The state machine.                                                      *)
(***************************************************************************)
\* The arguments of a callback or method that takes no control request.
Arguments(endpoint_number, data, packet_size, blocking) ==
    [endpoint |-> endpoint_number, data |-> data, packet_size |-> packet_size,
     blocking |-> blocking]

NoArguments == Arguments(0, <<>>, 0, FALSE)

NoSuggestions == [k \in {} |-> [length |-> 0, data |-> <<>>]]

\* What is remembered of a callback: its name and arguments, the state it
\* started in, and two histories of the run so far: `selected`, the number
\* of the last SET_CONFIGURATION that named an owned configuration, 0 after
\* SET_CONFIGURATION(0) or a bus reset, and `unhandled`, the length and
\* payload of the last request nobody handled, per signature.
Snapshot(event, request, selected, unhandled) ==
    [event |-> event, request |-> request, address |-> address,
     configuration |-> configuration,
     suggested_requests |-> suggested_requests,
     handled |-> FALSE, offered |-> <<>>, added |-> None,
     invoked |-> <<>>, arguments |-> NoArguments,
     selected |-> selected, unhandled |-> unhandled]

Before(event, request) == Snapshot(event, request, last.selected, last.unhandled)

\* `selected` once the request is handled.
SelectedBy(request) ==
    IF /\ request.type = "STANDARD"
       /\ request.recipient = "DEVICE"
       /\ request.number = SET_CONFIGURATION
    THEN IF request.value = 0 THEN 0
         ELSE IF HasKey(configurations, request.value) THEN request.value
         ELSE last.selected
    ELSE last.selected

\* `unhandled` once the request is handled.
UnhandledBy(request) ==
    IF /\ Matching(request) = {}
       /\ \A i \in 1..Len(configurations) :
            ~configuration_matches(configurations[i], request)
    THEN [k \in DOMAIN last.unhandled \cup {suggestion_summary(request)} |->
            IF k = suggestion_summary(request)
            THEN [length |-> request.length, data |-> request.data]
            ELSE last.unhandled[k]]
    ELSE last.unhandled

Commit(self) ==
    /\ address' = self.address
    /\ configuration' = self.configuration
    /\ configurations' = self.configurations
    /\ strings' = self.strings
    /\ suggested_requests' = self.suggested_requests
    /\ suggested_request_metadata' = self.suggested_request_metadata
    /\ calls' = self.calls
    /\ raised' = self.raised
    /\ sending' = self.sending

\* _send_in_packets before it is called: `payload` is the caller's object,
\* `given` its value when the call was made, `data` the local variable,
\* `own` whether the local variable is an object of its own, and `pc` is
\* "idle", "while" (at the test of the loop) or "returned".
NotSending ==
    [pc |-> "idle", endpoint |-> 0, payload |-> <<>>, given |-> <<>>,
     data |-> <<>>, own |-> TRUE, packet_size |-> 0, blocking |-> FALSE]

\* emulate() before it is called: `pc` is the statement the main thread, or
\* the task of run(), executes next; `stopped` is what ended the service
\* loop; `pending` is the exception emulate() lets through; `stopping`
\* says a coroutine has raised and the task of run() is still to be
\* cancelled; `settled` is the address and configuration left by the last
\* whole service_irqs call; `observed` is where the task of run() stood at
\* the last coroutine step, and whether the device was as settled.
\* `entry` is the method the caller runs the device with, `backend` is
\* self.backend, and `serviced_unconnected` says service_irqs was called
\* on a backend that connect was never called on.
NotEmulating ==
    [pc |-> "connect", connects |-> 0, disconnects |-> 0, stopped |-> "none",
     pending |-> "none", stopping |-> FALSE, serviced_after_disconnect |-> FALSE,
     entry |-> "emulate", backend |-> None, serviced_unconnected |-> FALSE,
     settled |-> [address |-> 0, configuration |-> None],
     observed |-> [at |-> "none", whole |-> TRUE]]

\* __post_init__: unconfigured, address 0, the declared configurations
\* instantiated in the order of their numbers, no suggestions.
Init ==
    /\ address = 0
    /\ configuration = None
    /\ configurations = [i \in 1..MaxConfigurationNumber |-> i]
    /\ strings = <<>>
    /\ suggested_requests = {}
    /\ suggested_request_metadata = NoSuggestions
    /\ calls = <<>>
    /\ raised = FALSE
    /\ last = Snapshot("__post_init__", NoRequest, 0, NoSuggestions)
    /\ loop = NotEmulating
    /\ sending = NotSending

HandleRequest(request) ==
    /\ ~raised
    /\ UNCHANGED loop
    /\ LET after == handle_request(Self, request)
       IN  /\ Commit(after)
           /\ last' = [Before("handle_request", request) EXCEPT
                          !.handled = after.handled, !.offered = after.offered,
                          !.selected = SelectedBy(request),
                          !.unhandled = UnhandledBy(request)]

HandleBusReset ==
    /\ ~raised
    /\ UNCHANGED loop
    /\ Commit(handle_bus_reset(Self))
    /\ last' = [Before("handle_bus_reset", NoRequest) EXCEPT !.selected = 0]

AddConfiguration(c) ==
    /\ ~raised
    /\ UNCHANGED loop
    /\ Commit(add_configuration(Self, c))
    /\ last' = [Before("add_configuration", NoRequest) EXCEPT !.added = c]

\* The endpoint numbers the backend reports events for: the endpoints of the
\* configurations and one number no configuration has.
EventEndpoints == 1..3

EventData == [i \in 1..MaxPayload |-> i]

HandleNak(ep_num) ==
    /\ ~raised
    /\ UNCHANGED loop
    /\ LET after == handle_nak(Self, ep_num)
       IN  /\ Commit(after)
           /\ last' = [Before("handle_nak", NoRequest) EXCEPT
                          !.invoked = after.invoked,
                          !.arguments = Arguments(ep_num, <<>>, 0, FALSE)]

HandleBufferAvailable(ep_num) ==
    /\ ~raised
    /\ UNCHANGED loop
    /\ LET after == handle_buffer_available(Self, ep_num)
       IN  /\ Commit(after)
           /\ last' = [Before("handle_buffer_available", NoRequest) EXCEPT
                          !.invoked = after.invoked,
                          !.arguments = Arguments(ep_num, <<>>, 0, FALSE)]

HandleDataAvailable(ep_num, data) ==
    /\ ~raised
    /\ UNCHANGED loop
    /\ LET after == handle_data_available(Self, ep_num, data)
       IN  /\ Commit(after)
           /\ last' = [Before("handle_data_available", NoRequest) EXCEPT
                          !.invoked = after.invoked,
                          !.arguments = Arguments(ep_num, data, 0, FALSE)]

Next ==
    \/ \E request \in Requests : HandleRequest(request)
    \/ HandleBusReset
    \/ \E c \in ConfigurationObjects : AddConfiguration(c)
    \/ \E ep_num \in EventEndpoints : HandleNak(ep_num)
    \/ \E ep_num \in EventEndpoints : HandleBufferAvailable(ep_num)
    \/ \E ep_num \in EventEndpoints : HandleDataAvailable(ep_num, EventData)

Spec == Init /\ [][Next]_vars

(***************************************************************************)
(* The I/O interface called directly: send and _send_in_packets with the   *)
(* payloads, packet sizes and flags of SendData, PacketSizes and BOOLEAN,  *)
(* on a device that SET_ADDRESS, SET_CONFIGURATION and bus resets move     *)
(* through its states.                                                     *)
(***************************************************************************)
Payload(length) == [i \in 1..length |-> i % 256]

\* A payload one byte longer than the packet size of endpoint 0.
LongPayload == Payload(max_packet_size_ep0 + 1)

SendData == {Payload(length) : length \in 0..MaxSendLength}

PacketSizes == 1..MaxPacketSize

SendEndpoints == 0..2

Send(endpoint_number, data, blocking) ==
    /\ ~raised
    /\ UNCHANGED loop
    /\ Commit(send(Self, endpoint_number, data, blocking))
    /\ last' = [Before("send", NoRequest) EXCEPT
                   !.arguments = Arguments(endpoint_number, data, 0, blocking)]

SendInPackets(endpoint_number, data, packet_size, blocking) ==
    /\ ~raised
    /\ UNCHANGED loop
    /\ Commit(send_in_packets(Self, endpoint_number, data, packet_size, blocking))
    /\ last' = [Before("_send_in_packets", NoRequest) EXCEPT
                   !.arguments = Arguments(endpoint_number, data, packet_size, blocking)]

SendNext ==
    \/ \E endpoint_number \in SendEndpoints, data \in SendData \cup {LongPayload},
          blocking \in BOOLEAN :
            Send(endpoint_number, data, blocking)
    \/ \E endpoint_number \in SendEndpoints, data \in SendData,
          packet_size \in PacketSizes, blocking \in BOOLEAN :
            SendInPackets(endpoint_number, data, packet_size, blocking)
    \/ \E request \in SetAddressRequests \cup SetConfigurationRequests :
            HandleRequest(request)
    \/ HandleBusReset

SendSpec == Init /\ [][SendNext]_vars

(***************************************************************************)
(* _send_in_packets statement by statement: the copy of the payload and    *)
(* the zero-length case, then one packet per iteration of the loop, for    *)
(* packet sizes from 0.                                                    *)
(***************************************************************************)
\* No call makes more packets than this unless its loop makes no progress.
MaxPackets == MaxSendLength + 2

AnyPacketSizes == 0..MaxPacketSize

\* Mutant of bytearray: the local variable is the caller's object.
bytearray_same_object(s) == [s EXCEPT !.data = s.payload, !.own = FALSE]

\* data = bytearray(data): the local variable is a copy of the payload.
bytearray(s) == [s EXCEPT !.data = s.payload, !.own = TRUE]

\* Mutant of next_packet: the packet is not deleted from the data.
next_packet_keeps_data(s) == s

\* del data[0:packet_size], which also acts on the caller's object when the
\* local variable is that object.
next_packet(s) ==
    [s EXCEPT !.data = Drop(@, s.packet_size),
              !.payload = IF s.own THEN @ ELSE Drop(@, s.packet_size)]

\* The call up to the loop: the copy, and the zero-length packet of an
\* empty payload.
SendInPacketsBegins(endpoint_number, data, packet_size, blocking) ==
    /\ sending.pc \in {"idle", "returned"}
    /\ UNCHANGED loop
    /\ LET entered == bytearray(
                [pc |-> "while", endpoint |-> endpoint_number, payload |-> data,
                 given |-> data, data |-> <<>>, own |-> TRUE,
                 packet_size |-> packet_size, blocking |-> blocking])
       IN  IF entered.data = <<>>
           THEN Commit(BackendCall([Self EXCEPT !.sending = [entered EXCEPT !.pc = "returned"]],
                                   "send_on_endpoint", endpoint_number, entered.data,
                                   blocking, 0))
           ELSE Commit([Self EXCEPT !.sending = entered])
    /\ last' = [Before("_send_in_packets", NoRequest) EXCEPT
                   !.arguments = Arguments(endpoint_number, data, packet_size, blocking)]

\* One iteration of `while data`.
SendInPacketsIterates ==
    /\ sending.pc = "while"
    /\ sending.data # <<>>
    /\ Len(calls) < MaxPackets
    /\ UNCHANGED <<loop, last>>
    /\ Commit(BackendCall([Self EXCEPT !.calls = calls, !.sending = next_packet(sending)],
                          "send_on_endpoint", sending.endpoint,
                          Take(sending.data, sending.packet_size), sending.blocking, 0))

\* `while data` finds the data empty.
SendInPacketsReturns ==
    /\ sending.pc = "while"
    /\ sending.data = <<>>
    /\ UNCHANGED <<loop, last>>
    /\ Commit([Self EXCEPT !.calls = calls, !.sending = [sending EXCEPT !.pc = "returned"]])

PacketNext ==
    \/ \E endpoint_number \in 1..2, data \in SendData,
          packet_size \in AnyPacketSizes, blocking \in BOOLEAN :
            SendInPacketsBegins(endpoint_number, data, packet_size, blocking)
    \/ SendInPacketsIterates
    \/ SendInPacketsReturns

\* A running loop goes on running.
PacketSpec ==
    /\ Init
    /\ [][PacketNext]_vars
    /\ WF_vars(SendInPacketsIterates)
    /\ WF_vars(SendInPacketsReturns)

(***************************************************************************)
(* emulate(): connect, then run_with(coroutines) inside try / except       *)
(* KeyboardInterrupt / finally disconnect.  run_with gathers the task of   *)
(* run() and the coroutines on one event loop, so a task runs until it     *)
(* awaits; run() awaits in one place, asyncio.sleep(0) after each          *)
(* service_irqs call.  loop.pc is "connect", "service_irqs" (the task of   *)
(* run() is about to call it), "handler" (service_irqs is inside           *)
(* handle_bus_reset, the configuration cleared and the address not yet),   *)
(* "sleep" (the task of run() is suspended at its await), "disconnect"     *)
(* (the finally clause is about to run) or "done".                         *)
(***************************************************************************)
device == <<address, configuration, configurations, strings, suggested_requests,
            suggested_request_metadata, calls, raised, last, sending>>

connect(self) == BackendCall(self, "connect", 0, <<>>, FALSE, max_packet_size_ep0)

disconnect(self) == BackendCall(self, "disconnect", 0, <<>>, FALSE, 0)

\* Mutant of suspended: the coroutines are scheduled whatever the task of
\* run() is doing.
suspended_anywhere(l) == l.pc \in {"service_irqs", "handler", "sleep"}

\* The task of run() is suspended: it stands at `await asyncio.sleep(0)`.
suspended(l) == l.pc = "sleep"

\* Mutant of emulate_cleanup: disconnect follows the try statement instead
\* of being its finally clause.
emulate_cleanup_without_finally(l, cause, exception) ==
    IF exception = "KeyboardInterrupt"
    THEN [l EXCEPT !.pc = "disconnect", !.stopped = cause, !.stopping = FALSE]
    ELSE [l EXCEPT !.pc = "done", !.stopped = cause, !.stopping = FALSE,
                   !.pending = exception]

\* run_with ends with `exception`: KeyboardInterrupt is swallowed, anything
\* else stays pending, and the finally clause runs next.
emulate_cleanup(l, cause, exception) ==
    [l EXCEPT !.pc = "disconnect", !.stopped = cause, !.stopping = FALSE,
              !.pending = IF exception = "KeyboardInterrupt" THEN "none" ELSE exception]

\* One more service_irqs call, noted if the backend is already disconnected.
Serviced(l) ==
    [l EXCEPT !.serviced_after_disconnect = @ \/ l.disconnects > 0,
              !.serviced_unconnected = @ \/ l.connects = 0]

\* The backend object: the one given at construction, or the
\* FacedancerUSBApp() that connect creates.
FacedancerUSBApp == 1

\* connect as it acts on the loop: without a backend it creates one, and it
\* connects the backend.
Connected(l) ==
    [l EXCEPT !.backend = IF @ = None THEN FacedancerUSBApp ELSE @,
              !.connects = @ + 1]

\* The service loop ends with `exception`: inside emulate the try statement
\* takes over, a caller of run or run_with gets the exception.
Stop(l, cause, exception) ==
    IF l.entry = "emulate"
    THEN emulate_cleanup(l, cause, exception)
    ELSE [l EXCEPT !.pc = "done", !.stopped = cause, !.stopping = FALSE,
                   !.pending = exception]

Settled(l, self) ==
    [l EXCEPT !.pc = "sleep",
              !.settled = [address |-> self.address,
                           configuration |-> self.configuration]]

\* What a coroutine finds when it runs.
Observed(l) ==
    [l EXCEPT !.observed =
        [at |-> l.pc,
         whole |-> /\ address = l.settled.address
                   /\ configuration = l.settled.configuration]]

\* The requests the host sends while the device is emulated.
ServicedRequests ==
    SetAddressRequests \cup SetConfigurationRequests
    \cup {r \in GetDescriptorRequests :
            value_high(r) = DescriptorTypes_CONFIGURATION /\ r.length = 255}

Connect ==
    /\ loop.pc = "connect"
    /\ Commit(connect(Self))
    /\ last' = Before("connect", NoRequest)
    /\ loop' = [Connected(loop) EXCEPT !.pc = "run"]

\* run() up to its loop: it connects when the device has no backend.
Run ==
    /\ loop.pc = "run"
    /\ IF loop.backend = None
       THEN /\ Commit(connect(Self))
            /\ last' = Before("connect", NoRequest)
            /\ loop' = [Connected(loop) EXCEPT !.pc = "service_irqs"]
       ELSE /\ loop' = [loop EXCEPT !.pc = "service_irqs"]
            /\ UNCHANGED device

\* service_irqs hands one control request to handle_request.
ServiceIrqs(request) ==
    /\ loop.pc = "service_irqs"
    /\ LET after == handle_request(Self, request)
       IN  /\ Commit(after)
           /\ last' = [Before("handle_request", request) EXCEPT
                          !.handled = after.handled, !.offered = after.offered,
                          !.selected = SelectedBy(request),
                          !.unhandled = UnhandledBy(request)]
           /\ loop' = IF after.raised
                       THEN Stop(Serviced(loop), "handler", "Exception")
                       ELSE Settled(Serviced(loop), after)

\* service_irqs finds nothing to do.
ServiceIrqsIdle ==
    /\ loop.pc = "service_irqs"
    /\ loop' = Settled(Serviced(loop), Self)
    /\ UNCHANGED device

\* service_irqs itself raises.
ServiceIrqsRaises ==
    /\ loop.pc = "service_irqs"
    /\ loop' = Stop(Serviced(loop), "service_irqs", "Exception")
    /\ UNCHANGED device

\* service_irqs calls handle_bus_reset, which clears the configuration ...
BusResetBegins ==
    /\ loop.pc = "service_irqs"
    /\ Commit([Self EXCEPT !.configuration = None])
    /\ last' = [Before("service_irqs", NoRequest) EXCEPT !.selected = 0]
    /\ loop' = [Serviced(loop) EXCEPT !.pc = "handler"]

\* ... and then the address, and resets the backend.
BusResetEnds ==
    /\ loop.pc = "handler"
    /\ LET after == handle_bus_reset(Self)
       IN  /\ Commit(after)
           /\ last' = [Before("handle_bus_reset", NoRequest) EXCEPT
                          !.address = last.address,
                          !.configuration = last.configuration]
           /\ loop' = Settled(loop, after)

\* Ctrl-C while the event loop runs.  Inside a handler the interrupt either
\* cuts the handler short or is delivered when the handler has returned.
KeyboardInterrupt ==
    /\ loop.pc \in {"service_irqs", "handler", "sleep"}
    /\ loop' = Stop(loop, "KeyboardInterrupt", "KeyboardInterrupt")
    /\ \/ UNCHANGED device
       \/ /\ loop.pc = "handler"
          /\ Commit(handle_bus_reset(Self))
          /\ last' = [Before("handle_bus_reset", NoRequest) EXCEPT
                         !.address = last.address,
                         !.configuration = last.configuration]

\* A caller-supplied coroutine runs up to its next await.
CoroutineStep ==
    /\ suspended(loop)
    /\ loop' = Observed(loop)
    /\ UNCHANGED device

\* A caller-supplied coroutine raises: gather hands the exception to
\* run_with, and the task of run() goes on until it is cancelled.
CoroutineRaises ==
    /\ suspended(loop)
    /\ ~loop.stopping
    /\ loop' = [Observed(loop) EXCEPT !.stopping = TRUE]
    /\ UNCHANGED device

\* The event loop resumes the task of run(): `while True` calls service_irqs.
Resume ==
    /\ loop.pc = "sleep"
    /\ loop' = [loop EXCEPT !.pc = "service_irqs"]
    /\ UNCHANGED device

\* asyncio.run cancels the task of run() at its await.
Cancel ==
    /\ loop.pc = "sleep"
    /\ loop.stopping
    /\ loop' = Stop(loop, "coroutine", "Exception")
    /\ UNCHANGED device

\* The finally clause.
Disconnect ==
    /\ loop.pc = "disconnect"
    /\ Commit([disconnect(Self) EXCEPT !.raised = raised])
    /\ last' = Before("disconnect", NoRequest)
    /\ loop' = [loop EXCEPT !.pc = "done", !.disconnects = @ + 1]

EmulateNext ==
    \/ Connect
    \/ Run
    \/ \E request \in ServicedRequests : ServiceIrqs(request)
    \/ ServiceIrqsIdle
    \/ ServiceIrqsRaises
    \/ BusResetBegins
    \/ BusResetEnds
    \/ KeyboardInterrupt
    \/ CoroutineStep
    \/ CoroutineRaises
    \/ Resume
    \/ Cancel
    \/ Disconnect

\* A finally clause is always executed when its try statement is left.
EmulateSpec == Init /\ [][EmulateNext]_vars /\ WF_vars(Disconnect)

\* The device run by emulate, or by run (run_with) without emulate, with a
\* backend given at construction or without one.
RunInit ==
    /\ address = 0
    /\ configuration = None
    /\ configurations = [i \in 1..MaxConfigurationNumber |-> i]
    /\ strings = <<>>
    /\ suggested_requests = {}
    /\ suggested_request_metadata = NoSuggestions
    /\ calls = <<>>
    /\ raised = FALSE
    /\ last = Snapshot("__post_init__", NoRequest, 0, NoSuggestions)
    /\ sending = NotSending
    /\ \E entry \in {"emulate", "run"}, backend \in {None, FacedancerUSBApp} :
            loop = [NotEmulating EXCEPT
                        !.entry = entry, !.backend = backend,
                        !.pc = IF entry = "emulate" THEN "connect" ELSE "run"]

RunSpec == RunInit /\ [][EmulateNext]_vars

(***************************************************************************)
(* What the last callback did, read off the backend calls it made.         *)
(***************************************************************************)
CallsNamed(name) == {i \in 1..Len(calls) : calls[i].call = name}

\* A reply or an acknowledge: a send on endpoint 0.
Sends == {i \in CallsNamed("send_on_endpoint") : calls[i].endpoint = 0}

\* An acknowledge: a zero-length send on endpoint 0.
Acknowledges == {i \in Sends : calls[i].data = <<>>}

Stalls == {i \in CallsNamed("stall_endpoint") : calls[i].endpoint = 0}

TerminalActions == Sends \cup Stalls

HandledRequest == last.event = "handle_request"

HandledStandard(n) ==
    /\ HandledRequest
    /\ last.request.type = "STANDARD"
    /\ last.request.recipient = "DEVICE"
    /\ last.request.number = n

\* No handler of the device and no handler of any configuration it owns
\* matches the request.
MatchesNoHandler(request) ==
    /\ Matching(request) = {}
    /\ \A i \in 1..Len(configurations) : ~configuration_matches(configurations[i], request)

UnknownConfiguration(n) == n # 0 /\ ~HasKey(configurations, n)

(***************************************************************************)
(* C1: when handle_request finishes, exactly one terminal action (reply,   *)
(* acknowledge or stall) has been issued for the request.  The code breaks *)
(* this: GET_DESCRIPTOR for a configuration index the device does not own  *)
(* raises out of get_configuration_descriptor before any terminal action.  *)
(***************************************************************************)
C1_ExactlyOneTerminalAction ==
    HandledRequest => Cardinality(TerminalActions) = 1

(***************************************************************************)
(* C2: the device is always Unaddressed, Addressed or Configured; a        *)
(* configuration is never selected while the address is 0.  The code       *)
(* breaks this: SET_CONFIGURATION is applied whatever the address is, and  *)
(* SET_ADDRESS(0) keeps the selected configuration.                        *)
(***************************************************************************)
Unaddressed == address = 0 /\ configuration = None

Addressed == address # 0 /\ configuration = None

Configured == address # 0 /\ configuration # None

C2_OneOfThreeStates == Unaddressed \/ Addressed \/ Configured

(***************************************************************************)
(* C3: after handle_bus_reset, from any state, the address is 0, no        *)
(* configuration is active and the backend was told to reset exactly once. *)
(***************************************************************************)
C3_BusResetClearsState ==
    last.event = "handle_bus_reset" =>
        /\ address = 0
        /\ configuration = None
        /\ Cardinality(CallsNamed("reset")) = 1

C3_Witness ==
    /\ last.event = "handle_bus_reset"
    /\ last.address # 0
    /\ last.configuration # None
    /\ Unaddressed

(***************************************************************************)
(* C4: on SET_ADDRESS(addr) the acknowledge is issued while the device     *)
(* still holds the old address, and when the handler finishes the device's *)
(* address is addr.                                                        *)
(***************************************************************************)
C4_AcknowledgeBeforeAddressChange ==
    HandledStandard(SET_ADDRESS) =>
        /\ Cardinality(Acknowledges) = 1
        /\ \A i \in Acknowledges : calls[i].address = last.address
        /\ address = last.request.value

C4_Witness ==
    /\ HandledStandard(SET_ADDRESS)
    /\ last.address # 0
    /\ address # 0
    /\ address # last.address
    /\ Acknowledges # {}

(***************************************************************************)
(* C5 as stated: while handling SET_ADDRESS(addr) the backend receives     *)
(* exactly one set_address call, carrying addr with the defer flag set.    *)
(***************************************************************************)
C5_DeferredSetAddress ==
    HandledStandard(SET_ADDRESS) =>
        /\ Cardinality(CallsNamed("set_address")) = 1
        /\ \A i \in CallsNamed("set_address") :
              calls[i].arg = last.request.value /\ calls[i].flag = TRUE

(***************************************************************************)
(* C5 amended: while handling SET_ADDRESS(addr) the backend receives       *)
(* exactly one set_address call, carrying addr with the defer flag clear,  *)
(* and made after the blocking acknowledge.                                *)
(***************************************************************************)
C5_ImmediateSetAddressAfterAcknowledge ==
    HandledStandard(SET_ADDRESS) =>
        /\ Cardinality(CallsNamed("set_address")) = 1
        /\ \A i \in CallsNamed("set_address") :
              /\ calls[i].arg = last.request.value
              /\ calls[i].flag = FALSE
              /\ \E j \in Acknowledges : j < i /\ calls[j].flag = TRUE

C5_Witness ==
    /\ HandledStandard(SET_ADDRESS)
    /\ last.request.value # last.address
    /\ last.request.value # 0
    /\ CallsNamed("set_address") # {}

(***************************************************************************)
(* C6: SET_CONFIGURATION(0), in any prior state, acknowledges the request  *)
(* and leaves the device with no active configuration.                     *)
(***************************************************************************)
C6_SetConfigurationZeroDeselects ==
    (HandledStandard(SET_CONFIGURATION) /\ last.request.value = 0) =>
        /\ configuration = None
        /\ Cardinality(Acknowledges) = 1
        /\ Stalls = {}

C6_Witness ==
    /\ HandledStandard(SET_CONFIGURATION)
    /\ last.request.value = 0
    /\ last.configuration # None
    /\ configuration = None

(***************************************************************************)
(* C7: SET_CONFIGURATION(n) with n # 0 and n not a key of the device's     *)
(* configurations stalls the request, does not acknowledge it, and leaves  *)
(* the active configuration as it was.                                     *)
(***************************************************************************)
C7_UnknownConfigurationStalls ==
    (HandledStandard(SET_CONFIGURATION) /\ UnknownConfiguration(last.request.value)) =>
        /\ Cardinality(Stalls) = 1
        /\ Sends = {}
        /\ configuration = last.configuration

C7_Witness ==
    /\ HandledStandard(SET_CONFIGURATION)
    /\ UnknownConfiguration(last.request.value)
    /\ last.configuration # None
    /\ Stalls # {}

(***************************************************************************)
(* C8: every SET_CONFIGURATION request (success, n = 0, unknown n) makes   *)
(* exactly one backend.configured call, after the acknowledge or stall,    *)
(* whose argument is the active configuration after the request.           *)
(***************************************************************************)
C8_ConfiguredNotifiedOnce ==
    HandledStandard(SET_CONFIGURATION) =>
        /\ Cardinality(CallsNamed("configured")) = 1
        /\ Cardinality(TerminalActions) = 1
        /\ \A i \in CallsNamed("configured") :
              /\ calls[i].arg = configuration
              /\ \A j \in TerminalActions : j < i

C8_Witness ==
    /\ HandledStandard(SET_CONFIGURATION)
    /\ UnknownConfiguration(last.request.value)
    /\ configuration # None
    /\ \E i \in CallsNamed("configured") : calls[i].arg = configuration

(***************************************************************************)
(* C9 as stated: every request that matches no declared handler at any     *)
(* level results in exactly one stall on endpoint 0 and exactly one new    *)
(* suggestion record.                                                      *)
(***************************************************************************)
C9_OneStallOneNewSuggestion ==
    (HandledRequest /\ MatchesNoHandler(last.request)) =>
        /\ Cardinality(Stalls) = 1
        /\ Cardinality(suggested_requests) = Cardinality(last.suggested_requests) + 1

(***************************************************************************)
(* C9 amended: every request that matches no declared handler at any level *)
(* results in exactly one stall on endpoint 0 and no other terminal        *)
(* action, and in exactly one suggestion record for its signature: a new   *)
(* record when the signature was not recorded before, the existing record  *)
(* overwritten (and none added) when it was.                               *)
(***************************************************************************)
C9_OneStallOneSuggestionPerSignature ==
    (HandledRequest /\ MatchesNoHandler(last.request)) =>
        /\ Cardinality(Stalls) = 1
        /\ Sends = {}
        /\ suggested_requests =
              last.suggested_requests \cup {suggestion_summary(last.request)}
        /\ DOMAIN suggested_request_metadata = suggested_requests
        /\ suggested_request_metadata[suggestion_summary(last.request)] =
              [length |-> last.request.length, data |-> last.request.data]

C9_Witness ==
    /\ HandledRequest
    /\ MatchesNoHandler(last.request)
    /\ suggestion_summary(last.request) \in last.suggested_requests
    /\ suggested_requests = last.suggested_requests
    /\ Cardinality(Stalls) = 1

(***************************************************************************)
(* C10: when no device-level handler matches, the request is forwarded to  *)
(* the active configuration only, and to nobody when the device is         *)
(* unconfigured.  The code breaks this: _get_subordinate_handlers returns  *)
(* every owned configuration, active or not.                               *)
(***************************************************************************)
C10_ForwardsToActiveConfigurationOnly ==
    (HandledRequest /\ Matching(last.request) = {}) =>
        last.offered = IF last.configuration = None
                       THEN <<>>
                       ELSE <<last.configuration>>

(***************************************************************************)
(* The descriptor a GET_DESCRIPTOR request asks for, as the device holds   *)
(* it: the request changes neither the configurations nor the indices of   *)
(* strings already assigned.                                               *)
(***************************************************************************)
RequestedDescriptor ==
    descriptors(Self, value_high(last.request), value_low(last.request))

IsPrefix(data, bytes) ==
    /\ Len(data) <= Len(bytes)
    /\ \A k \in 1..Len(data) : data[k] = bytes[k]

(***************************************************************************)
(* C11: a GET_DESCRIPTOR request that resolves to a non-empty descriptor   *)
(* of length D, with requested length R, is answered by one reply holding  *)
(* the first min(R, D) bytes of the descriptor: R bytes when R < D, the    *)
(* whole descriptor and nothing more when R >= D.                          *)
(***************************************************************************)
C11_ReplyIsTruncatedDescriptor ==
    (/\ HandledStandard(GET_DESCRIPTOR)
     /\ ~RequestedDescriptor.raised
     /\ RequestedDescriptor.value # <<>>) =>
        /\ Stalls = {}
        /\ Cardinality(Sends) = 1
        /\ \A i \in Sends :
              /\ IsPrefix(calls[i].data, RequestedDescriptor.value)
              /\ Len(calls[i].data) =
                    IF last.request.length < Len(RequestedDescriptor.value)
                    THEN last.request.length
                    ELSE Len(RequestedDescriptor.value)

C11_Witness ==
    /\ HandledStandard(GET_DESCRIPTOR)
    /\ ~RequestedDescriptor.raised
    /\ Len(RequestedDescriptor.value) > last.request.length
    /\ last.request.length > 0
    /\ \E i \in Sends : Len(calls[i].data) = last.request.length

(***************************************************************************)
(* C12: a GET_DESCRIPTOR request whose descriptor type has no entry in the *)
(* descriptor map, or whose producer yields an empty or falsy value, is    *)
(* stalled and no reply is sent.                                           *)
(***************************************************************************)
C12_MissingDescriptorStalls ==
    (/\ HandledStandard(GET_DESCRIPTOR)
     /\ ~RequestedDescriptor.raised
     /\ RequestedDescriptor.value = <<>>) =>
        /\ Cardinality(Stalls) = 1
        /\ Sends = {}

C12_Witness ==
    /\ HandledStandard(GET_DESCRIPTOR)
    /\ value_high(last.request) \notin
          {DescriptorTypes_DEVICE, DescriptorTypes_CONFIGURATION, DescriptorTypes_STRING}
    /\ Cardinality(Stalls) = 1

(***************************************************************************)
(* C13: GET_DESCRIPTOR of type CONFIGURATION with index i is answered from *)
(* the configuration whose number is i + 1, and from no other: the reply   *)
(* is a prefix of that configuration's descriptor, whose configuration     *)
(* value is i + 1, and there is no reply when the device owns no           *)
(* configuration numbered i + 1.                                           *)
(***************************************************************************)
C13_ConfigurationIndexPlusOne ==
    (/\ HandledStandard(GET_DESCRIPTOR)
     /\ value_high(last.request) = DescriptorTypes_CONFIGURATION) =>
        IF HasKey(configurations, value_low(last.request) + 1)
        THEN /\ Cardinality(Sends) = 1
             /\ \A i \in Sends :
                   /\ IsPrefix(calls[i].data,
                               configuration_get_descriptor(
                                   Lookup(configurations, value_low(last.request) + 1)))
                   /\ Len(calls[i].data) >= 6 =>
                         calls[i].data[6] = value_low(last.request) + 1
        ELSE Sends = {}

C13_Witness ==
    /\ HandledStandard(GET_DESCRIPTOR)
    /\ value_high(last.request) = DescriptorTypes_CONFIGURATION
    /\ value_low(last.request) = 1
    /\ \E i \in Sends : Len(calls[i].data) >= 6 /\ calls[i].data[6] = 2

(***************************************************************************)
(* C18: get_descriptor() returns 18 bytes (byte 0 = 18, byte 1 = 1) whose  *)
(* fields, every 2-byte field decoded little-endian, give back the         *)
(* configured values and the number of owned configurations.  The code     *)
(* breaks this: the USB spec version and the device revision are written   *)
(* high byte first.                                                        *)
(***************************************************************************)
LittleEndian(low, high) == low + 256 * high

DecodesToDevice(d) ==
    /\ Len(d) = 18
    /\ d[1] = 18
    /\ d[2] = 1
    /\ LittleEndian(d[3], d[4]) = usb_spec_version
    /\ d[5] = device_class
    /\ d[6] = device_subclass
    /\ d[7] = protocol_revision_number
    /\ d[8] = max_packet_size_ep0
    /\ LittleEndian(d[9], d[10]) = vendor_id
    /\ LittleEndian(d[11], d[12]) = product_id
    /\ LittleEndian(d[13], d[14]) = device_revision
    /\ d[18] = Len(configurations)

C18_DeviceDescriptorDecodes ==
    (/\ HandledStandard(GET_DESCRIPTOR)
     /\ value_high(last.request) = DescriptorTypes_DEVICE
     /\ last.request.length >= 18) =>
        \A i \in Sends : DecodesToDevice(calls[i].data)

(***************************************************************************)
(* C19: no backend event makes an exception escape from the device's       *)
(* callbacks.  The code breaks this: GET_DESCRIPTOR for a configuration    *)
(* index the device does not own raises KeyError out of handle_request.    *)
(***************************************************************************)
C19_NoExceptionEscapes == ~raised

(***************************************************************************)
(* C20: received data or a data request for an endpoint number that the    *)
(* active configuration does not have in that direction, or while no       *)
(* configuration is active, runs the matching unexpected-data handler      *)
(* exactly once and nothing else, and leaves the address and the active    *)
(* configuration unchanged.                                                *)
(***************************************************************************)
NoSuchEndpoint(endpoint_number, direction) ==
    \/ last.configuration = None
    \/ <<endpoint_number, direction>> \notin endpoints(last.configuration)

C20_UnexpectedDataHandledOnce ==
    /\ (/\ last.event = "handle_data_available"
        /\ NoSuchEndpoint(last.arguments.endpoint, USBDirection_OUT)) =>
            /\ last.invoked = <<"handle_unexpected_data_received">>
            /\ address = last.address
            /\ configuration = last.configuration
    /\ (/\ last.event = "handle_nak"
        /\ NoSuchEndpoint(last.arguments.endpoint, USBDirection_IN)) =>
            /\ last.invoked = <<"handle_unexpected_data_requested">>
            /\ address = last.address
            /\ configuration = last.configuration

C20_Witness ==
    /\ last.event = "handle_data_available"
    /\ last.configuration # None
    /\ last.address # 0
    /\ <<last.arguments.endpoint, USBDirection_IN>> \in endpoints(last.configuration)
    /\ last.invoked = <<"handle_unexpected_data_received">>

(***************************************************************************)
(* C14: _send_in_packets on endpoint N with a payload of L bytes and a     *)
(* packet size P >= 1 makes, when L > 0, exactly ceil(L / P) send_on_      *)
(* endpoint calls on endpoint N, each of at most P bytes, so no extra      *)
(* zero-length packet even when L is a multiple of P; when L = 0 it makes  *)
(* exactly one call, of zero bytes.                                        *)
(***************************************************************************)
Ceiling(n, d) == (n + d - 1) \div d

SentInPackets == last.event = "_send_in_packets"

C14_PacketCount ==
    SentInPackets =>
        LET L == Len(last.arguments.data)
            P == last.arguments.packet_size
        IN  /\ \A i \in 1..Len(calls) :
                    /\ calls[i].call = "send_on_endpoint"
                    /\ calls[i].endpoint = last.arguments.endpoint
                    /\ Len(calls[i].data) <= P
            /\ L > 0 => Len(calls) = Ceiling(L, P)
            /\ L = 0 => Len(calls) = 1 /\ calls[1].data = <<>>

\* A payload that is a multiple of the packet size, longer than one packet.
C14_Witness ==
    /\ SentInPackets
    /\ last.arguments.packet_size = 2
    /\ Len(last.arguments.data) = 4
    /\ Len(calls) = 2

(***************************************************************************)
(* C15: send on endpoint 0 is not chunked: whatever the payload length     *)
(* (zero and lengths above max_packet_size_ep0 included) and whatever the  *)
(* configuration state, it makes exactly one send_on_endpoint call, on     *)
(* endpoint 0, with the whole payload and the caller's blocking flag, and  *)
(* no zero-length packet besides.                                          *)
(***************************************************************************)
C15_EndpointZeroNotChunked ==
    (last.event = "send" /\ last.arguments.endpoint = 0) =>
        /\ Len(calls) = 1
        /\ calls[1].call = "send_on_endpoint"
        /\ calls[1].endpoint = 0
        /\ calls[1].data = last.arguments.data
        /\ calls[1].flag = last.arguments.blocking

\* A blocking send of more than one packet's worth on a configured device.
C15_Witness ==
    /\ last.event = "send"
    /\ last.arguments.endpoint = 0
    /\ Len(last.arguments.data) > max_packet_size_ep0
    /\ last.arguments.blocking
    /\ configuration # None
    /\ Len(calls) = 1

(***************************************************************************)
(* C16: in every execution of emulate, once connected, the backend is      *)
(* disconnected exactly once when the service loop stops, whether a        *)
(* KeyboardInterrupt, an exception from service_irqs or from a handler, or *)
(* an exception from a coroutine stopped it, and service_irqs is never     *)
(* called after the disconnect.                                            *)
(***************************************************************************)
LoopStopped == loop.stopped # "none"

C16_DisconnectedOnce ==
    /\ [](/\ loop.disconnects <= 1
          /\ loop.connects <= 1
          /\ loop.disconnects = 1 => loop.connects = 1 /\ LoopStopped
          /\ loop.pc = "done" => loop.disconnects = 1
          /\ ~loop.serviced_after_disconnect)
    /\ (LoopStopped ~> (loop.pc = "done" /\ loop.disconnects = 1))

\* emulate has ended on the exception of a handler, the backend disconnected.
C16_Witness ==
    /\ loop.pc = "done"
    /\ loop.stopped = "handler"
    /\ loop.pending = "Exception"
    /\ raised
    /\ loop.disconnects = 1

(***************************************************************************)
(* C17: the service loop yields only between two service_irqs calls: a     *)
(* coroutine never runs while a service_irqs call or a handler is in       *)
(* progress, so it finds the task of run() at its await and the address    *)
(* and configuration as the last whole service_irqs call left them.        *)
(***************************************************************************)
C17_YieldsBetweenIterations ==
    /\ loop.observed.at \in {"none", "sleep"}
    /\ loop.observed.whole

\* A coroutine has run between two iterations, on a configured device, and
\* the loop is now inside a bus reset.
C17_Witness ==
    /\ loop.observed.at = "sleep"
    /\ loop.pc = "handler"
    /\ address # 0
    /\ configuration = None
    /\ loop.settled.configuration # None

(***************************************************************************)
(* C21: from construction the address stays 0 until a SET_ADDRESS is       *)
(* handled and the configuration stays unset until a SET_CONFIGURATION     *)
(* naming an owned configuration is handled; every other control request   *)
(* (GET_STATUS, CLEAR_FEATURE, SET_FEATURE, SET_DESCRIPTOR,                *)
(* GET_CONFIGURATION, GET_INTERFACE, SET_INTERFACE, SYNCH_FRAME, requests  *)
(* nobody handles) and every endpoint event leaves the address and the     *)
(* active configuration as they were.                                      *)
(***************************************************************************)
\* The step hands the device a standard request numbered n.
HandlesStandard(n) ==
    /\ last'.event = "handle_request"
    /\ last'.request.type = "STANDARD"
    /\ last'.request.recipient = "DEVICE"
    /\ last'.request.number = n

EndpointEvents == {"handle_nak", "handle_buffer_available", "handle_data_available"}

\* The step is a control request other than the two setters, or an
\* endpoint event.
LeavesStateAlone ==
    \/ last'.event \in EndpointEvents
    \/ /\ last'.event = "handle_request"
       /\ ~HandlesStandard(SET_ADDRESS)
       /\ ~HandlesStandard(SET_CONFIGURATION)

C21_StateChangesOnlyBySetters ==
    [][/\ (address = 0 /\ ~HandlesStandard(SET_ADDRESS)) => address' = 0
       /\ (/\ configuration = None
           /\ ~(/\ HandlesStandard(SET_CONFIGURATION)
                /\ HasKey(configurations, last'.request.value)))
            => configuration' = None
       /\ LeavesStateAlone =>
            /\ address' = address
            /\ configuration' = configuration]_vars

\* SET_INTERFACE was acknowledged on a configured device whose address is 0.
C21_Witness ==
    /\ HandledStandard(SET_INTERFACE)
    /\ Acknowledges # {}
    /\ address = 0
    /\ configuration # None
    /\ last.configuration = configuration

(***************************************************************************)
(* C22: after any sequence of SET_CONFIGURATION requests and bus resets,   *)
(* GET_CONFIGURATION replies with one byte: the number n of the most       *)
(* recent successful SET_CONFIGURATION(n) since the last bus reset or      *)
(* SET_CONFIGURATION(0), and 0 when there is none; the request changes     *)
(* neither the address nor the active configuration.                       *)
(***************************************************************************)
C22_GetConfigurationReportsSelected ==
    HandledStandard(GET_CONFIGURATION) =>
        /\ Len(calls) = 1
        /\ Sends = {1}
        /\ calls[1].data = <<last.selected>>
        /\ address = last.address
        /\ configuration = last.configuration

\* Configuration 1 is selected and the device now owns another object
\* under that number.
C22_Witness ==
    /\ HandledStandard(GET_CONFIGURATION)
    /\ last.selected = 1
    /\ Lookup(configurations, 1) # 1
    /\ Sends = {1}

(***************************************************************************)
(* C23: after any sequence of unhandled requests the device holds exactly  *)
(* one suggestion record per (direction, type, recipient, number)          *)
(* signature seen, the set of signatures equals the keys of the metadata   *)
(* map, and each record holds the length and payload of the most recent    *)
(* unhandled request with its signature: a repeated signature overwrites   *)
(* its record and adds none.                                               *)
(***************************************************************************)
C23_OneRecordPerSignature ==
    /\ suggested_requests = DOMAIN suggested_request_metadata
    /\ suggested_requests = DOMAIN last.unhandled
    /\ \A k \in suggested_requests :
            suggested_request_metadata[k] = last.unhandled[k]

\* Two signatures are recorded and the last request repeated one of them,
\* with a payload.
C23_Witness ==
    /\ HandledRequest
    /\ ~last.handled
    /\ suggestion_summary(last.request) \in last.suggested_requests
    /\ last.request.data # <<>>
    /\ Cardinality(suggested_requests) = 2
    /\ suggested_request_metadata[suggestion_summary(last.request)].data = last.request.data

(***************************************************************************)
(* C24: in every state reached by add_configuration calls,                 *)
(* SET_CONFIGURATION requests and bus resets, the active configuration is  *)
(* unset or is the very object the configurations map holds under its      *)
(* number: the device never has an active configuration it no longer owns. *)
(***************************************************************************)
C24_ActiveConfigurationIsOwned ==
    \/ configuration = None
    \/ /\ HasKey(configurations, number(configuration))
       /\ Lookup(configurations, number(configuration)) = configuration

(***************************************************************************)
(* C25: service_irqs is never called on a backend that connect was not     *)
(* called on: in every execution of run() or emulate(), with a backend     *)
(* given at construction or created on demand, a backend.connect call      *)
(* precedes the first service_irqs call, and connect is called exactly     *)
(* once.                                                                   *)
(***************************************************************************)
C25_ConnectBeforeServiceIrqs ==
    /\ ~loop.serviced_unconnected
    /\ loop.connects <= 1
    /\ loop.pc \in {"handler", "sleep"} => loop.connects = 1

(***************************************************************************)
(* C26: for every payload and packet size P >= 1 the packets               *)
(* _send_in_packets submits, concatenated in submission order, equal the   *)
(* payload byte for byte; every packet but the last carries exactly P      *)
(* bytes and the last carries between 1 and P bytes; the caller's payload  *)
(* object is not modified.                                                 *)
(***************************************************************************)
RECURSIVE Concatenated(_)
Concatenated(packets) ==
    IF packets = <<>> THEN <<>>
    ELSE Head(packets).data \o Concatenated(Tail(packets))

\* _send_in_packets has returned from a call with a packet size of 1 or more.
ReturnedPackets == sending.pc = "returned" /\ sending.packet_size >= 1

PacketsArePayload ==
    /\ Len(calls) >= 1
    /\ \A i \in 1..Len(calls) :
            /\ calls[i].call = "send_on_endpoint"
            /\ calls[i].endpoint = sending.endpoint
    /\ Concatenated(calls) = sending.given
    /\ \A i \in 1..(Len(calls) - 1) : Len(calls[i].data) = sending.packet_size
    /\ sending.payload = sending.given

\* The claim as stated: the last packet is never empty.
C26_PacketsConcatenate ==
    ReturnedPackets =>
        /\ PacketsArePayload
        /\ Len(calls[Len(calls)].data) \in 1..sending.packet_size

\* C26 as it holds: the last packet carries between 1 and P bytes when the
\* payload is not empty; an empty payload is submitted as one packet of
\* zero bytes; the caller's object is the same at every point of the call.
C26_PacketsConcatenateNonEmpty ==
    /\ sending.payload = sending.given
    /\ ReturnedPackets =>
        /\ PacketsArePayload
        /\ sending.given # <<>> =>
                Len(calls[Len(calls)].data) \in 1..sending.packet_size
        /\ sending.given = <<>> => Len(calls) = 1 /\ calls[1].data = <<>>

\* Three bytes went out as a full packet of two and a last packet of one.
C26_Witness ==
    /\ ReturnedPackets
    /\ sending.packet_size = 2
    /\ Len(sending.given) = 3
    /\ Len(calls) = 2
    /\ Len(calls[2].data) = 1

(***************************************************************************)
(* C27: _send_in_packets terminates for every payload and every packet     *)
(* size P >= 1, the remaining data shrinking strictly on each iteration of *)
(* its loop; with a non-empty payload and P = 0 the loop makes no progress *)
(* and never terminates.                                                   *)
(***************************************************************************)
InLoop == sending.pc = "while"

C27_TerminatesUnlessPacketSizeZero ==
    /\ [](InLoop /\ sending.packet_size >= 1 => <>(sending.pc = "returned"))
    /\ [][(InLoop /\ sending.packet_size >= 1 /\ sending'.pc = "while")
            => Len(sending'.data) < Len(sending.data)]_vars
    /\ [][(InLoop /\ sending.packet_size = 0)
            => sending'.pc = "while" /\ sending'.data = sending.data]_vars
    /\ [](sending.packet_size = 0 /\ sending.given # <<>> => sending.pc # "returned")

\* With packet size 0 the loop has sent empty packets and still holds all
\* of the payload.
C27_Witness ==
    /\ InLoop
    /\ sending.packet_size = 0
    /\ Len(calls) >= 2
    /\ sending.data = sending.given
    /\ sending.given # <<>>

====
